---- MODULE Spec2Model ----
(***************************************************************************)
(* Node execution engine of the AI Call Flow Builder backend               *)
(* (src/backend/main.py): execute_node, the ConnectionManager that fans    *)
(* events out to the websockets of a workflow, the websocket endpoint and  *)
(* the Redis result cache written with a one hour TTL.                     *)
(*                                                                         *)
(* Every handler is an asyncio coroutine.  One action of an invocation is  *)
(* one run of its coroutine on the event loop: it resumes from the await   *)
(* it is suspended in, runs the synchronous code that follows and ends     *)
(* with the effect of the next awaited call (a send_json, a sleep, a       *)
(* setex) or with the handler's end.                                       *)
(***************************************************************************)
EXTENDS Integers, Sequences, FiniteSets, TLC

\* ------------------------------------------------------------------ bounds
MaxTicks == 2        \* clock advances by the environment
MaxFaults == 2       \* websockets that close or whose endpoint fails
MaxStalls == 1       \* websockets that stall
MaxRecv == 1         \* client text frames handled by the echo loop
MaxCacheFaults == 1  \* setex calls that fail

\* --------------------------------------------------------- program constants
CacheTtl == 3600
PlayAudioDelay == 1
AiNodeDelay == 2
EndCallDuration == 120

\* ----------------------------------------------------------------- inputs
Execs == {"e1", "e2"}                 \* invocations of execute_node
Conns == {"s1", "s2"}                 \* websockets
FaultMsgs == {"", "closed"}           \* str(e) of a fault of an awaited call
TickDeltas == {1, 3599}

\* The workflow ids a websocket may ask for in its path, /ws/{workflow_id}.
ConnWorkflows == {"w1", "w2"}

\* The workflow ids disconnect may be called with: w9 never has a list.
AnyWorkflows == ConnWorkflows \cup {"w9"}

EmptyDict == [k \in {} |-> ""]

\* db.workflows: the documents find_one reads.
Workflows ==
  << [id |-> "w1",
      nodes |-> << [id |-> "n1", type |-> "startCall", data |-> EmptyDict],
                   [id |-> "n2", type |-> "playAudio", data |-> [audioMessage |-> "Hi"]],
                   [id |-> "n3", type |-> "aiNode", data |-> EmptyDict],
                   [id |-> "n4", type |-> "aiNode", data |-> [flowId |-> "f1"]] >>],
     [id |-> "w2",
      nodes |-> << [id |-> "n1", type |-> "endCall", data |-> EmptyDict],
                   [id |-> "n2", type |-> "playAudio", data |-> EmptyDict],
                   [id |-> "n5", type |-> "transfer", data |-> EmptyDict] >>] >>

\* The (workflow_id, node_id) pairs a request may carry.
AllRequests ==
  { <<"w1", "n1">>, <<"w1", "n2">>, <<"w1", "n3">>, <<"w1", "n4">>, <<"w1", "n9">>,
    <<"w2", "n1">>, <<"w2", "n2">>, <<"w2", "n5">>, <<"w9", "n1">> }
\* The pairs of the runs in which two requests arrive.
PairRequests == { <<"w1", "n1">>, <<"w1", "n2">> }
NoRequests == AllRequests \ AllRequests

KnownTypes == {"startCall", "playAudio", "aiNode", "endCall"}

\* ----------------------------------------------------------- Python values
PyNone == [py |-> "None"]
NoError == [set |-> FALSE, msg |-> ""]          \* error = None
ErrorStr(m) == [set |-> TRUE, msg |-> m]        \* error = str(e)
\* `if error:` : None and the empty string are falsy.
Truthy(err) == err.set /\ err.msg # ""

DictGet(d, k, default) == IF k \in DOMAIN d THEN d[k] ELSE default

\* db.workflows.find_one({"id": workflow_id}): the first document, or 0.
FindWorkflow(wid) ==
  LET hits == {i \in 1..Len(Workflows) : Workflows[i].id = wid}
  IN IF hits = {} THEN 0 ELSE CHOOSE i \in hits : \A j \in hits : i <= j

\* next((n for n in workflow["nodes"] if n["id"] == node_id), None)
FindNode(nodes, nid) ==
  LET hits == {i \in 1..Len(nodes) : nodes[i].id = nid}
  IN IF hits = {} THEN 0 ELSE CHOOSE i \in hits : \A j \in hits : i <= j

NodeOf(wid, nid) ==
  LET w == Workflows[FindWorkflow(wid)] IN w.nodes[FindNode(w.nodes, nid)]

Resolves(wid, nid) ==
  /\ FindWorkflow(wid) # 0
  /\ FindNode(Workflows[FindWorkflow(wid)].nodes, nid) # 0

VARIABLES
  active_connections,  \* ConnectionManager.active_connections: workflow id -> list
  conn,                \* state of each websocket
  inbox,               \* the messages each websocket's client has been sent
  inv,                 \* each invocation of execute_node
  cache,               \* Redis: key -> entry
  node_executions,     \* NODE_EXECUTIONS counter per node type
  execution_time,      \* EXECUTION_TIME observation count per node type
  now,                 \* the clock
  budget,              \* what the environment may still do
  pubs,                \* history: the broadcast_to_workflow calls, in call order
  hist,                \* history: per invocation, what it found and did
  call                 \* history: the last call of manager.disconnect made from
                       \* outside websocket_endpoint

vars == << active_connections, conn, inbox, inv, cache, node_executions,
           execution_time, now, budget, pubs, hist, call >>

\* ------------------------------------------------------------------- Init
\* What the environment may do in one run: the pairs the first and the second
\* request may carry (none: no such request), the workflow ids the second
\* websocket may ask for (the first asks for w1), the websockets whose clients
\* may go away (closers), how many close or have their endpoint fail (faults),
\* how many stall (stalls), the client frames
\* (recv), the clock advances (ticks) and the setex calls that fail
\* (cachefaults).
Budgets ==
  { [requests |-> [e1 |-> {<< "w1", "n1" >>}, e2 |-> {<< "w1", "n2" >>}],
     subs |-> {"w1"}, closers |-> {"s1"}, faults |-> 1, stalls |-> 0, recv |-> 0,
     ticks |-> 0, cachefaults |-> 0],
    [requests |-> [e1 |-> AllRequests, e2 |-> NoRequests],
     subs |-> ConnWorkflows, closers |-> Conns, faults |-> MaxFaults, stalls |-> MaxStalls,
     recv |-> MaxRecv, ticks |-> MaxTicks - 1, cachefaults |-> MaxCacheFaults],
    [requests |-> [e1 |-> {<< "w1", "n1" >>}, e2 |-> PairRequests],
     subs |-> {"w1"}, closers |-> Conns, faults |-> 0, stalls |-> 0, recv |-> 0, ticks |-> MaxTicks,
     cachefaults |-> 0] }

IdleInv ==
  [pc |-> "idle", wf |-> "", node |-> "", phase |-> "", idx |-> 0,
   blocked |-> FALSE, result |-> PyNone, error |-> NoError, wake |-> 0,
   outcome |-> [kind |-> "none"]]

NoHist ==
  [subs |-> {}, stable |-> {}, fanout |-> {}, fanned |-> {}, wrote |-> FALSE,
   putAt |-> 0, counted |-> FALSE, timed |-> FALSE, during |-> {}, before |-> {},
   raised |-> FALSE, setexFailed |-> FALSE, audience |-> {}, putNo |-> 0,
   cachedAtInvoke |-> FALSE, closedBefore |-> {}]

NodeTypes == {"startCall", "playAudio", "aiNode", "endCall", "transfer"}

NoCall == [op |-> "none"]

Init ==
  /\ active_connections = [w \in {} |-> <<>>]
  /\ conn = [c \in Conns |-> [state |-> "new", wf |-> "", pubsAtRemoval |-> 0]]
  /\ inbox = [c \in Conns |-> <<>>]
  /\ inv = [e \in Execs |-> IdleInv]
  /\ cache = [k \in {} |-> PyNone]
  /\ node_executions = [t \in NodeTypes |-> 0]
  /\ execution_time = [t \in NodeTypes |-> 0]
  /\ now = 0
  /\ budget \in Budgets
  /\ pubs = <<>>
  /\ hist = [e \in Execs |-> NoHist]
  /\ call = NoCall

\* ------------------------------------------------------ ConnectionManager
\* One list for all workflow ids: the list of w1 whatever the id asked for.
SubscribersShared(wid) ==
  IF "w1" \in DOMAIN active_connections THEN active_connections["w1"] ELSE <<>>

\* self.active_connections[workflow_id] if workflow_id in self.active_connections
Subscribers(wid) ==
  IF wid \in DOMAIN active_connections THEN active_connections[wid] ELSE <<>>

SeqSet(s) == {s[i] : i \in 1..Len(s)}

\* list.remove(x): drops the first occurrence.
ListRemove(s, x) ==
  LET k == CHOOSE i \in 1..Len(s) : s[i] = x /\ \A j \in 1..(i - 1) : s[j] # x
  IN [i \in 1..(Len(s) - 1) |-> IF i < k THEN s[i] ELSE s[i + 1]]

\* Websockets are named in the order they connect.
EarlierConn(c) == IF c = "s2" THEN {"s1"} ELSE {}

\* ConnectionManager.connect, called first thing by websocket_endpoint.
Connect(c, w) ==
  /\ conn[c].state = "new"
  /\ w \in (IF c = "s1" THEN {"w1"} ELSE budget.subs)
  /\ \A d \in EarlierConn(c) : conn[d].state # "new"
  /\ conn' = [conn EXCEPT ![c] = [@ EXCEPT !.state = "open", !.wf = w]]
  /\ LET had == IF w \in DOMAIN active_connections
                  THEN active_connections ELSE active_connections @@ (w :> <<>>)
     IN active_connections' = [had EXCEPT ![w] = Append(@, c)]
  /\ UNCHANGED << call, inbox, inv, cache, node_executions, execution_time, now,
                  budget, pubs, hist >>

\* The client goes away: the socket is closed, the endpoint has not yet seen
\* WebSocketDisconnect, the websocket is still in its list.
ClientCloses(c) ==
  /\ conn[c].state = "open"
  /\ c \in budget.closers
  /\ budget.faults > 0
  /\ conn' = [conn EXCEPT ![c].state = "closed"]
  /\ budget' = [budget EXCEPT !.faults = @ - 1]
  /\ UNCHANGED << call, active_connections, inbox, inv, cache, node_executions,
                  execution_time, now, pubs, hist >>

\* The client stops reading: a send to it never completes.
ClientStalls(c) ==
  /\ conn[c].state = "open"
  /\ budget.stalls > 0
  /\ conn' = [conn EXCEPT ![c].state = "stalled"]
  /\ budget' = [budget EXCEPT !.stalls = @ - 1]
  /\ UNCHANGED << call, active_connections, inbox, inv, cache, node_executions,
                  execution_time, now, pubs, hist >>

\* list.remove(x) raises ValueError when x is not in the list.
DisconnectRaises(c, wid) ==
  wid \in DOMAIN active_connections /\ c \notin SeqSet(active_connections[wid])

\* ConnectionManager.disconnect: the registry it leaves (the one it found
\* when list.remove raises).
Disconnect(c, wid) ==
  IF wid \in DOMAIN active_connections /\ ~DisconnectRaises(c, wid)
    THEN [active_connections EXCEPT ![wid] = ListRemove(@, c)]
    ELSE active_connections

\* manager.disconnect(websocket, workflow_id) called on the manager itself,
\* for any websocket and any workflow id.
Unsubscribe(c, wid) ==
  /\ call' = [op |-> "disconnect", websocket |-> c, workflow_id |-> wid,
              before |-> active_connections, after |-> Disconnect(c, wid),
              raised |-> DisconnectRaises(c, wid)]
  /\ active_connections' = Disconnect(c, wid)
  /\ UNCHANGED << conn, inbox, inv, cache, node_executions, execution_time, now,
                  budget, pubs, hist >>

\* websocket_endpoint: receive_text raises WebSocketDisconnect, the handler
\* calls manager.disconnect and ends.
HandleDisconnect(c) ==
  /\ conn[c].state = "closed"
  /\ conn' = [conn EXCEPT ![c] = [@ EXCEPT !.state = "gone", !.pubsAtRemoval = Len(pubs)]]
  /\ active_connections' = Disconnect(c, conn[c].wf)
  /\ hist' = [e \in Execs |->
               IF inv[e].pc \in {"idle", "ended"} THEN hist[e]
               ELSE [hist[e] EXCEPT !.stable = @ \ {c}, !.fanout = @ \ {c}]]
  /\ UNCHANGED << call, inbox, inv, cache, node_executions, execution_time, now,
                  budget, pubs >>

\* websocket_endpoint: one turn of the receive loop.  A text frame that is
\* JSON is echoed back; one that is not makes json.loads raise, which the
\* handler does not catch: it ends without manager.disconnect, the server
\* closes the socket and the websocket stays in its list.
Receive(c, isJson) ==
  /\ conn[c].state = "open"
  /\ budget.recv > 0
  /\ isJson \/ budget.faults > 0
  /\ budget' = [budget EXCEPT !.recv = @ - 1,
                               !.faults = IF isJson THEN @ ELSE @ - 1]
  /\ IF isJson
       THEN /\ inbox' = [inbox EXCEPT ![c] = Append(@, [type |-> "echo", data |-> "text"])]
            /\ conn' = conn
       ELSE /\ conn' = [conn EXCEPT ![c].state = "dead"]
            /\ inbox' = inbox
  /\ UNCHANGED << call, active_connections, inv, cache, node_executions,
                  execution_time, now, pubs, hist >>

\* Time passes between invocations (a run of a coroutine takes no time, a
\* sleep its delay).  Before the first cache write the clock's value decides
\* nothing, so the clock is advanced only once the cache holds an entry.
Tick(d) ==
  /\ budget.ticks > 0
  /\ DOMAIN cache # {}
  /\ \A e \in Execs : inv[e].pc \in {"idle", "ended"}
  /\ budget' = [budget EXCEPT !.ticks = @ - 1]
  /\ now' = now + d
  /\ UNCHANGED << call, active_connections, conn, inbox, inv, cache, node_executions,
                  execution_time, pubs, hist >>

\* ----------------------------------------------------------- execute_node
\* One run of the coroutine is computed on a record: x the invocation, h its
\* history, t the time of the run, and the run's effect on what is shared:
\* to/msg a message sent, put a cache write, count/time the metrics, pubs the
\* broadcast calls made, cachefault a setex that failed.
RunOf(e) ==
  [x |-> inv[e], h |-> hist[e],
   t |-> IF inv[e].pc = "sleep" /\ now < inv[e].wake THEN inv[e].wake ELSE now,
   to |-> "none", msg |-> PyNone, put |-> FALSE, count |-> FALSE, time |-> FALSE,
   pubs |-> pubs, cachefault |-> FALSE]

\* The message dicts of the three broadcasts (inv: the invocation that built
\* the message, which stands for the message's identity).
Message(e, x, phase) ==
  CASE phase = "start" ->
         [type |-> "node_execution_start", inv |-> e,
          data |-> [node_id |-> x.node, workflow_id |-> x.wf, status |-> "running"]]
    [] phase = "complete" ->
         [type |-> "node_execution_complete", inv |-> e,
          data |-> [node_id |-> x.node, workflow_id |-> x.wf, status |-> "completed",
                    result |-> x.result]]
    [] phase = "error" ->
         [type |-> "node_execution_error", inv |-> e,
          data |-> [node_id |-> x.node, workflow_id |-> x.wf, status |-> "error",
                    error |-> x.error.msg]]

\* if error: return {"success": False, ...}; return {"success": True, ...}
Return(S) ==
  [S EXCEPT !.x.pc = "ended",
            !.x.outcome = IF Truthy(S.x.error)
                            THEN [kind |-> "return", success |-> FALSE, error |-> S.x.error.msg]
                            ELSE [kind |-> "return", success |-> TRUE, data |-> S.x.result]]

\* An exception leaves the handler.
Unhandled(S) ==
  [S EXCEPT !.x.pc = "ended", !.x.outcome = [kind |-> "unhandled"]]

\* raise HTTPException(status_code=404, detail=...)
NotFound(S, detail) ==
  [S EXCEPT !.x.pc = "ended",
            !.x.outcome = [kind |-> "http", status |-> 404, detail |-> detail]]

\* broadcast_to_workflow is called: the iterator is at the head of the list.
BeginBroadcast(S, e, phase) ==
  [S EXCEPT !.x.phase = phase, !.x.idx = 0,
            !.pubs = Append(@, Message(e, [S.x EXCEPT !.phase = phase], phase)),
            !.h.fanout = SeqSet(Subscribers(S.x.wf)),
            !.h.audience = @ \cup SeqSet(Subscribers(S.x.wf))]

\* The for loop found the end of the list.
FanEnd(S) == [S EXCEPT !.h.fanned = @ \cup {<< S.x.phase, S.h.fanout >>}]

\* The fanout without `if workflow_id in self.active_connections`: the
\* subscript raises KeyError for a workflow id that has no list.
SendNextKeyError(S, e, atEnd, onRaise) ==
  IF S.x.wf \notin DOMAIN active_connections THEN onRaise
  ELSE LET L == active_connections[S.x.wf]
           i == S.x.idx
       IN IF i >= Len(L) THEN atEnd
          ELSE LET c == L[i + 1]
                   T == [S EXCEPT !.x.pc = "send_json", !.x.idx = i + 1]
               IN CASE conn[c].state = "open" ->
                         [T EXCEPT !.to = c, !.msg = Message(e, S.x, S.x.phase)]
                    [] conn[c].state = "stalled" -> [T EXCEPT !.x.blocked = TRUE]
                    [] OTHER -> onRaise

\* if workflow_id in self.active_connections:
\*     for connection in self.active_connections[workflow_id]:
\*         await connection.send_json(message)
\* The list iterator reads the live list at its index; the send raises on a
\* socket that is closed and never completes on one that is stalled.
SendNext(S, e, atEnd, onRaise) ==
  LET L == Subscribers(S.x.wf)
      i == S.x.idx
  IN IF i >= Len(L) THEN atEnd
     ELSE LET c == L[i + 1]
              T == [S EXCEPT !.x.pc = "send_json", !.x.idx = i + 1]
          IN CASE conn[c].state = "open" ->
                    [T EXCEPT !.to = c, !.msg = Message(e, S.x, S.x.phase)]
               [] conn[c].state = "stalled" -> [T EXCEPT !.x.blocked = TRUE]
               [] OTHER -> onRaise

\* The broadcast inside `except Exception`: nothing catches what it raises.
ErrorPhase(S, e) == SendNext(S, e, Return(FanEnd(S)), Unhandled(S))

\* except Exception as e: error = str(e); broadcast node_execution_error
Except(S, e, m) ==
  ErrorPhase(BeginBroadcast([S EXCEPT !.x.error = ErrorStr(m), !.h.raised = TRUE],
                            e, "error"), e)

CompletePhase(S, e, m) == SendNext(S, e, Return(FanEnd(S)), Except(S, e, m))

\* A cache write that keeps the entry it finds (SET ... NX in place of SETEX).
SetexKeepsFirst(S, e, cf, m) ==
  IF cf THEN Except([S EXCEPT !.cachefault = TRUE, !.h.setexFailed = TRUE], e, m)
  ELSE [S EXCEPT !.x.pc = "setex", !.put = << "node_result:", S.x.node >> \notin DOMAIN cache,
                 !.h.wrote = TRUE, !.h.putAt = S.t,
                 !.h.putNo = 1 + Cardinality({f \in Execs : hist[f].wrote})]

\* await redis_client.setex(f"node_result:{node_id}", 3600, json.dumps(...))
Setex(S, e, cf, m) ==
  IF cf THEN Except([S EXCEPT !.cachefault = TRUE, !.h.setexFailed = TRUE], e, m)
  ELSE [S EXCEPT !.x.pc = "setex", !.put = TRUE, !.h.wrote = TRUE, !.h.putAt = S.t,
                 !.h.putNo = 1 + Cardinality({f \in Execs : hist[f].wrote})]

AfterSetex(S, e, m) == CompletePhase(BeginBroadcast(S, e, "complete"), e, m)

\* Leaving `with EXECUTION_TIME.labels(node["type"]).time()`, by its end or
\* by an exception, records one observation.
Timed(S) == [S EXCEPT !.time = TRUE, !.h.timed = TRUE]

\* NODE_EXECUTIONS.labels(node["type"]).inc() and the branch of the node type.
Executor(S, e, cf, m) ==
  LET node == NodeOf(S.x.wf, S.x.node)
      C == [S EXCEPT !.count = TRUE, !.h.counted = TRUE]
  IN CASE node.type = "startCall" ->
            Setex(Timed([C EXCEPT !.x.result =
                    [call_sid |-> << "CA", e >>, status |-> "initiated",
                     from |-> "+15551234567", to |-> "+15559876543"]]), e, cf, m)
       [] node.type = "playAudio" ->
            [C EXCEPT !.x.result =
                        [audio_id |-> << "audio_", e >>,
                         message |-> DictGet(node.data, "audioMessage",
                                             "Hello, this is a default message."),
                         status |-> "generated"],
                      !.x.pc = "sleep", !.x.wake = S.t + PlayAudioDelay]
       [] node.type = "aiNode" ->
            IF DictGet(node.data, "flowId", "") = ""
              THEN Except(Timed(C), e, "No flow ID specified for AI Node")
              ELSE [C EXCEPT !.x.pc = "sleep", !.x.wake = S.t + AiNodeDelay]
       [] node.type = "endCall" ->
            Setex(Timed([C EXCEPT !.x.result =
                    [status |-> "completed", duration |-> EndCallDuration,
                     outcome |-> "success"]]), e, cf, m)
       [] OTHER -> Setex(Timed(C), e, cf, m)

\* asyncio.sleep is over.
AfterSleep(S, e, cf, m) ==
  IF NodeOf(S.x.wf, S.x.node).type = "aiNode"
    THEN Setex(Timed([S EXCEPT !.x.result =
                 [response |-> "This is a simulated AI response", confidence |-> 95,
                  intent |-> "greeting"]]), e, cf, m)
    ELSE Setex(Timed(S), e, cf, m)

StartPhase(S, e, cf, m) == SendNext(S, e, Executor(FanEnd(S), e, cf, m), Except(S, e, m))

\* Mutant of AfterFind: a cached result of the node id is returned in place
\* of an execution.
AfterFindMemo(S, e, cf, m) ==
  IF FindWorkflow(S.x.wf) = 0 THEN NotFound(S, "Workflow not found")
  ELSE IF FindNode(Workflows[FindWorkflow(S.x.wf)].nodes, S.x.node) = 0
    THEN NotFound(S, "Node not found")
  ELSE IF << "node_result:", S.x.node >> \in DOMAIN cache
    THEN Return([S EXCEPT !.x.result = cache[<< "node_result:", S.x.node >>].value.result])
  ELSE StartPhase(BeginBroadcast(S, e, "start"), e, cf, m)

\* Mutant of AfterFind: the start broadcast is called before the node is
\* looked up.
AfterFindEarlyStart(S, e, cf, m) ==
  IF FindWorkflow(S.x.wf) = 0 THEN NotFound(S, "Workflow not found")
  ELSE IF FindNode(Workflows[FindWorkflow(S.x.wf)].nodes, S.x.node) = 0
    THEN NotFound(BeginBroadcast(S, e, "start"), "Node not found")
  ELSE StartPhase(BeginBroadcast(S, e, "start"), e, cf, m)

\* find_one is back: the two lookups, then the start broadcast.
AfterFind(S, e, cf, m) ==
  IF FindWorkflow(S.x.wf) = 0 THEN NotFound(S, "Workflow not found")
  ELSE IF FindNode(Workflows[FindWorkflow(S.x.wf)].nodes, S.x.node) = 0
    THEN NotFound(S, "Node not found")
  ELSE StartPhase(BeginBroadcast(S, e, "start"), e, cf, m)

Run(e, cf, m) ==
  LET S == RunOf(e)
  IN CASE S.x.pc = "find_one" -> AfterFind(S, e, cf, m)
       [] S.x.pc = "sleep" -> AfterSleep(S, e, cf, m)
       [] S.x.pc = "setex" -> AfterSetex(S, e, m)
       [] S.x.pc = "send_json" /\ S.x.phase = "start" -> StartPhase(S, e, cf, m)
       [] S.x.pc = "send_json" /\ S.x.phase = "complete" -> CompletePhase(S, e, m)
       [] S.x.pc = "send_json" /\ S.x.phase = "error" -> ErrorPhase(S, e)

CacheKey(nid) == << "node_result:", nid >>

\* Invocations are named in the order their requests arrive.
Earlier(e) == IF e = "e2" THEN {"e1"} ELSE {}

\* The request arrives: execute_node awaits db.workflows.find_one.
Invoke(e, wid, nid) ==
  /\ inv[e].pc = "idle"
  /\ \A f \in Earlier(e) : inv[f].pc # "idle"
  /\ << wid, nid >> \in budget.requests[e]
  /\ inv' = [inv EXCEPT ![e] = [@ EXCEPT !.pc = "find_one", !.wf = wid, !.node = nid]]
  /\ hist' = [hist EXCEPT ![e] = [@ EXCEPT !.subs = SeqSet(Subscribers(wid)),
                                            !.stable = SeqSet(Subscribers(wid)),
                                            !.during = {f \in Execs : inv[f].pc \notin {"idle", "ended"}},
                                            !.before = {f \in Execs : inv[f].pc = "ended"},
                                            !.cachedAtInvoke = CacheKey(nid) \in DOMAIN cache,
                                            !.closedBefore =
                                              {c \in Conns : /\ conn[c].wf = wid
                                                             /\ conn[c].state \in {"closed", "dead", "gone"}}]]
  /\ UNCHANGED << call, active_connections, conn, inbox, cache, node_executions,
                  execution_time, now, budget, pubs >>

\* The event loop runs the coroutine of e up to its next await or its end.
\* cf: the setex it may reach fails; m: str(e) of the fault it may meet.
Resume(e, cf, m) ==
  /\ inv[e].pc \in {"find_one", "send_json", "sleep", "setex"}
  /\ ~inv[e].blocked
  /\ cf => budget.cachefaults > 0
  /\ LET R == Run(e, cf, m)
         type == NodeOf(R.x.wf, R.x.node).type
     IN /\ cf => R.cachefault
        /\ inv' = [inv EXCEPT ![e] = R.x]
        /\ hist' = [hist EXCEPT ![e] = R.h]
        /\ now' = R.t
        /\ pubs' = R.pubs
        /\ inbox' = IF R.to = "none" THEN inbox
                    ELSE [inbox EXCEPT ![R.to] = Append(@, R.msg)]
        /\ cache' = IF R.put
                      THEN [k \in DOMAIN cache \cup {CacheKey(R.x.node)} |->
                              IF k = CacheKey(R.x.node)
                                THEN [value |-> [result |-> R.x.result, timestamp |-> R.t],
                                      expires |-> R.t + CacheTtl, by |-> e]
                                ELSE cache[k]]
                      ELSE cache
        /\ node_executions' = IF R.count THEN [node_executions EXCEPT ![type] = @ + 1]
                              ELSE node_executions
        /\ execution_time' = IF R.time THEN [execution_time EXCEPT ![type] = @ + 1]
                             ELSE execution_time
        /\ budget' = IF R.cachefault THEN [budget EXCEPT !.cachefaults = @ - 1] ELSE budget
  /\ UNCHANGED << call, active_connections, conn >>

Next ==
  \/ \E c \in Conns, w \in ConnWorkflows : Connect(c, w)
  \/ \E c \in Conns : ClientCloses(c)
  \/ \E c \in Conns : ClientStalls(c)
  \/ \E c \in Conns : HandleDisconnect(c)
  \/ \E c \in Conns, isJson \in BOOLEAN : Receive(c, isJson)
  \/ \E d \in TickDeltas : Tick(d)
  \/ \E e \in Execs : \E r \in AllRequests : Invoke(e, r[1], r[2])
  \/ \E e \in Execs, cf \in BOOLEAN, m \in FaultMsgs : Resume(e, cf, m)

Spec == Init /\ [][Next]_vars

\* The runs in which no websocket closes and one may stall, under the event
\* loop's scheduling: a coroutine that can run is run.
StallBudgets ==
  { [requests |-> [e1 |-> {<< "w1", "n1" >>}, e2 |-> NoRequests],
     subs |-> {"w1"}, closers |-> Conns, faults |-> 0, stalls |-> MaxStalls, recv |-> 0, ticks |-> 0,
     cachefaults |-> 0] }

InitStall ==
  /\ active_connections = [w \in {} |-> <<>>]
  /\ conn = [c \in Conns |-> [state |-> "new", wf |-> "", pubsAtRemoval |-> 0]]
  /\ inbox = [c \in Conns |-> <<>>]
  /\ inv = [e \in Execs |-> IdleInv]
  /\ cache = [k \in {} |-> PyNone]
  /\ node_executions = [t \in NodeTypes |-> 0]
  /\ execution_time = [t \in NodeTypes |-> 0]
  /\ now = 0
  /\ budget \in StallBudgets
  /\ pubs = <<>>
  /\ hist = [e \in Execs |-> NoHist]
  /\ call = NoCall

NextStall ==
  \/ \E c \in Conns, w \in ConnWorkflows : Connect(c, w)
  \/ \E c \in Conns : ClientStalls(c)
  \/ \E e \in Execs : \E r \in AllRequests : Invoke(e, r[1], r[2])
  \/ \E e \in Execs, cf \in BOOLEAN, m \in FaultMsgs : Resume(e, cf, m)

FairSpec ==
  /\ InitStall /\ [][NextStall]_vars
  /\ \A e \in Execs : WF_vars(\E cf \in BOOLEAN, m \in FaultMsgs : Resume(e, cf, m))

\* The ConnectionManager taken by itself: websockets connect, and disconnect
\* is called for any websocket and workflow id, any number of times.
ManagerBudgets ==
  { [requests |-> [e1 |-> NoRequests, e2 |-> NoRequests],
     subs |-> ConnWorkflows, closers |-> Conns, faults |-> 0, stalls |-> 0, recv |-> 0,
     ticks |-> 0, cachefaults |-> 0] }

InitManager ==
  /\ active_connections = [w \in {} |-> <<>>]
  /\ conn = [c \in Conns |-> [state |-> "new", wf |-> "", pubsAtRemoval |-> 0]]
  /\ inbox = [c \in Conns |-> <<>>]
  /\ inv = [e \in Execs |-> IdleInv]
  /\ cache = [k \in {} |-> PyNone]
  /\ node_executions = [t \in NodeTypes |-> 0]
  /\ execution_time = [t \in NodeTypes |-> 0]
  /\ now = 0
  /\ budget \in ManagerBudgets
  /\ pubs = <<>>
  /\ hist = [e \in Execs |-> NoHist]
  /\ call = NoCall

NextManager ==
  \/ \E c \in Conns, w \in ConnWorkflows : Connect(c, w)
  \/ \E c \in Conns, w \in AnyWorkflows : Unsubscribe(c, w)

ManagerSpec == InitManager /\ [][NextManager]_vars

\* ========================================================== the claims
Begun(e) == inv[e].pc # "idle"
Ended(e) == inv[e].pc = "ended"
Returned(e) == Ended(e) /\ inv[e].outcome.kind = "return"

\* The node execution messages a websocket's client has been sent.
Events(c) == SelectSeq(inbox[c], LAMBDA msg : msg.type # "echo")
\* The types of those that invocation e built, in the order received.
TypesFrom(c, e) ==
  LET s == SelectSeq(inbox[c], LAMBDA msg : msg.type # "echo" /\ msg.inv = e)
  IN [i \in 1..Len(s) |-> s[i].type]
\* The types of the broadcasts invocation e called, in call order.
Published(e) ==
  LET s == SelectSeq(pubs, LAMBDA msg : msg.inv = e)
  IN [i \in 1..Len(s) |-> s[i].type]

\* C8: an invocation whose workflow id is not in the store, or whose node id
\* is not in the workflow found, ends on the resumption that follows find_one
\* with HTTP 404 and the matching detail; it has called no broadcast, no
\* websocket has a message of it, it has written no cache entry and touched
\* neither the execution counter nor the timer.
C8_NotFoundMutatesNothing ==
  \A e \in Execs :
    (Begun(e) /\ ~Resolves(inv[e].wf, inv[e].node)) =>
      /\ inv[e].pc \in {"find_one", "ended"}
      /\ Ended(e) =>
           inv[e].outcome =
             [kind |-> "http", status |-> 404,
              detail |-> IF FindWorkflow(inv[e].wf) = 0
                           THEN "Workflow not found" ELSE "Node not found"]
      /\ Published(e) = << >>
      /\ \A c \in Conns : TypesFrom(c, e) = << >>
      /\ ~hist[e].wrote /\ ~hist[e].counted /\ ~hist[e].timed
      /\ \A k \in DOMAIN cache : cache[k].by # e
      /\ (\A f \in Execs \ {e} : ~Begun(f)) =>
           /\ DOMAIN cache = {}
           /\ \A t \in NodeTypes : node_executions[t] = 0 /\ execution_time[t] = 0

\* C8 witness: a request for a node the workflow lacks has ended while a
\* websocket was registered for that workflow.
C8_Witness ==
  \E e \in Execs :
    /\ Ended(e) /\ inv[e].outcome.kind = "http"
    /\ inv[e].outcome.detail = "Node not found"
    /\ \E c \in Conns : c \in hist[e].subs /\ conn[c].state = "open"

\* A node of a known type whose executor has what it needs.
KnownNode(e) ==
  /\ Resolves(inv[e].wf, inv[e].node)
  /\ LET node == NodeOf(inv[e].wf, inv[e].node)
     IN /\ node.type \in KnownTypes
        /\ node.type = "aiNode" => DictGet(node.data, "flowId", "") # ""

\* C1: an invocation on a node of a known type (an aiNode with its flowId)
\* that has ended, none of its awaited calls having raised, has returned
\* success:true, and every websocket that was registered for the workflow
\* when the request arrived and was not removed while the invocation ran has
\* been sent, of this invocation, exactly the start message and then the
\* complete message.
C1_StartThenCompleteToAll ==
  \A e \in Execs :
    (Ended(e) /\ KnownNode(e) /\ ~hist[e].raised) =>
      /\ Returned(e) /\ inv[e].outcome.success
      /\ \A c \in hist[e].stable :
           TypesFrom(c, e) = << "node_execution_start", "node_execution_complete" >>

\* The place of a message in the order of the broadcast calls.
PubIndex(msg) == CHOOSE i \in 1..Len(pubs) : pubs[i] = msg
Received(c, msg) == \E i \in 1..Len(inbox[c]) : inbox[c][i] = msg

\* C2: a websocket that was removed from its list has been sent no message
\* whose broadcast was called after the removal, and every broadcast that ran
\* to the end of the list has sent its message to every websocket that was in
\* the list from the broadcast's call to its end and is still open.
C2_UnsubscribeLeavesOthersWhole ==
  /\ \A c \in Conns :
       conn[c].state = "gone" =>
         \A i \in 1..Len(Events(c)) : PubIndex(Events(c)[i]) <= conn[c].pubsAtRemoval
  /\ \A e \in Execs : \A f \in hist[e].fanned : \A c \in f[2] :
       conn[c].state = "open" =>
         Received(c, Message(e, inv[e], f[1]))

\* The messages of the broadcasts called for workflow w.
PublishedFor(w) ==
  {pubs[i] : i \in {j \in 1..Len(pubs) : pubs[j].data.workflow_id = w}}

\* C3: when two invocations on different node ids of one workflow ran
\* concurrently and both have ended, no awaited call of theirs having raised,
\* every websocket that was registered for
\* the workflow the whole time and is open has been sent exactly the messages
\* broadcast for the workflow, each carrying the node id of the invocation
\* that built it.
C3_ConcurrentExecutesLoseNothing ==
  \A e \in Execs : \A f \in hist[e].during :
    (/\ Ended(e) /\ Ended(f) /\ inv[e].wf = inv[f].wf /\ inv[e].node # inv[f].node
     /\ ~hist[e].raised /\ ~hist[f].raised) =>
      \A c \in hist[e].stable \cap hist[f].stable :
        conn[c].state = "open" =>
          /\ {Events(c)[i] : i \in 1..Len(Events(c))} = PublishedFor(inv[e].wf)
          /\ \A i \in 1..Len(Events(c)) :
               Events(c)[i].data.node_id = inv[Events(c)[i].inv].node

Position(c, msg) == CHOOSE i \in 1..Len(inbox[c]) : inbox[c][i] = msg

\* C4: of two messages of one workflow, the one whose broadcast was called
\* first comes first at every websocket that has been sent both.
C4_PublishOrder ==
  \A c \in Conns : \A i, j \in 1..Len(pubs) :
    (/\ i < j
     /\ pubs[i].data.workflow_id = pubs[j].data.workflow_id
     /\ Received(c, pubs[i]) /\ Received(c, pubs[j])) =>
       Position(c, pubs[i]) < Position(c, pubs[j])

\* C6: an invocation that resolved its node and has ended has returned an
\* outcome; no exception has left the handler.
C6_NoFaultEscapes ==
  \A e \in Execs :
    (Ended(e) /\ Resolves(inv[e].wf, inv[e].node)) => inv[e].outcome.kind = "return"

\* C7: an invocation that has returned success:false has not written the
\* cache.
C7_NoCacheWriteOnFailure ==
  \A e \in Execs :
    (Returned(e) /\ ~inv[e].outcome.success) => ~hist[e].wrote

LacksFlowId(e) ==
  /\ Resolves(inv[e].wf, inv[e].node)
  /\ LET node == NodeOf(inv[e].wf, inv[e].node)
     IN node.type = "aiNode" /\ "flowId" \notin DOMAIN node.data

\* C9: an invocation on an aiNode whose data has no flowId never calls the
\* complete broadcast and never writes the cache, and once it has ended it
\* has returned success:false after the start and then the error broadcast.
C9_AiNodeWithoutFlowId ==
  \A e \in Execs :
    (Begun(e) /\ LacksFlowId(e)) =>
      /\ ~hist[e].wrote
      /\ \A i \in 1..Len(Published(e)) : Published(e)[i] # "node_execution_complete"
      /\ Ended(e) =>
           /\ Returned(e) /\ ~inv[e].outcome.success
           /\ Published(e) = << "node_execution_start", "node_execution_error" >>

\* ResultCache.Get: the payload of an entry that has not expired, else a miss.
CacheGet(nid) ==
  IF CacheKey(nid) \in DOMAIN cache /\ now < cache[CacheKey(nid)].expires
    THEN [hit |-> TRUE, payload |-> cache[CacheKey(nid)].value.result]
    ELSE [hit |-> FALSE]

\* No other request for a node with the id of e's node arrived while e ran or
\* after it.
NoLaterExecution(e) ==
  \A f \in Execs \ {e} :
    inv[f].node = inv[e].node => (~Begun(f) \/ f \in hist[e].before)

\* C10: after an invocation has returned success:true, and with no later
\* execution of a node with that id, a Get of the node id is a hit with the
\* data returned until 3600 time units after the invocation's cache write and
\* a miss from then on.
C10_CachedForAnHour ==
  \A e \in Execs :
    (Returned(e) /\ inv[e].outcome.success /\ NoLaterExecution(e)) =>
      /\ hist[e].wrote
      /\ CacheGet(inv[e].node) =
           IF now < hist[e].putAt + CacheTtl
             THEN [hit |-> TRUE, payload |-> inv[e].outcome.data]
             ELSE [hit |-> FALSE]

Phases == {"start", "complete", "error"}

\* An open websocket that was in the list when a broadcast in progress was
\* called and has not been sent its message.
Owed(c) ==
  \E e \in Execs : \E ph \in Phases :
    /\ inv[e].pc = "send_json" /\ inv[e].phase = ph
    /\ c \in hist[e].fanout /\ conn[c].state = "open"
    /\ ~Received(c, Message(e, inv[e], ph))

\* C5: with one websocket stalled, every invocation that has begun ends, and
\* every open websocket that was in the list when a broadcast was called is
\* sent the broadcast's message.
C5_StalledSubscriberBlocksNobody ==
  /\ \A e \in Execs : Begun(e) ~> Ended(e)
  /\ \A c \in Conns : Owed(c) ~> ~Owed(c)

\* C11: a call of disconnect for a websocket that is not in the list of the
\* workflow id (it was removed before, or was never in it) raises nothing and
\* leaves the registry as it found it.
C11_UnsubscribeIdempotent ==
  (/\ call.op = "disconnect"
   /\ \/ call.workflow_id \notin DOMAIN call.before
      \/ call.websocket \notin SeqSet(call.before[call.workflow_id])) =>
    ~call.raised /\ call.after = call.before

\* The messages of the broadcasts invocation e called.
PublishedBy(e) == {pubs[i] : i \in {j \in 1..Len(pubs) : pubs[j].inv = e}}

\* C12: an invocation whose request arrives after the connection of a
\* websocket of its workflow has closed, and whose setex does not fail, ends
\* by returning its outcome; none of its broadcasts raises (only the executor
\* of an aiNode without flowId does), and every websocket registered
\* throughout and open has been sent every message it broadcast.
C12_ClosedSubscriberIsSkipped ==
  \A e \in Execs :
    (/\ Ended(e) /\ Resolves(inv[e].wf, inv[e].node)
     /\ hist[e].closedBefore # {} /\ ~hist[e].setexFailed) =>
      /\ Returned(e)
      /\ hist[e].raised => LacksFlowId(e)
      /\ \A c \in hist[e].stable :
           conn[c].state = "open" => \A msg \in PublishedBy(e) : Received(c, msg)

\* The messages of invocation e a websocket's client has been sent, in order.
EventsFrom(c, e) == SelectSeq(inbox[c], LAMBDA msg : msg.type # "echo" /\ msg.inv = e)

IsPlayAudio(e) ==
  Resolves(inv[e].wf, inv[e].node) /\ NodeOf(inv[e].wf, inv[e].node).type = "playAudio"

\* C13: an invocation on a playAudio node whose setex does not fail has, once
\* ended, returned success:true with status "generated" and the message of
\* the node's audioMessage, or the default message when the node has none;
\* when the workflow's list held one and the same websocket throughout, open
\* in the end, it has been sent
\* the start message and then the complete message carrying the returned
\* data, and nothing else of this invocation.
C13_PlayAudio ==
  \A e \in Execs :
    (Ended(e) /\ IsPlayAudio(e) /\ ~hist[e].setexFailed) =>
      /\ Returned(e)
      /\ inv[e].outcome.success
      /\ inv[e].outcome.data.status = "generated"
      /\ LET data == NodeOf(inv[e].wf, inv[e].node).data
         IN inv[e].outcome.data.message =
              IF "audioMessage" \in DOMAIN data THEN data.audioMessage
              ELSE "Hello, this is a default message."
      /\ \A c \in Conns :
           (/\ hist[e].subs = {c} /\ hist[e].audience = {c}
            /\ c \in hist[e].stable /\ conn[c].state = "open") =>
             /\ EventsFrom(c, e) = << Message(e, inv[e], "start"),
                                      Message(e, inv[e], "complete") >>
             /\ EventsFrom(c, e)[2].data.result = inv[e].outcome.data

\* Two outcomes are the same but for the identifiers drawn for the call.
SameOutcome(o1, o2) ==
  /\ o1.kind = o2.kind
  /\ o1.kind = "return" =>
       /\ o1.success = o2.success
       /\ o1.success =>
            /\ DOMAIN o1.data = DOMAIN o2.data
            /\ \A k \in DOMAIN o1.data \ {"call_sid", "audio_id"} : o1.data[k] = o2.data[k]
       /\ ~o1.success => o1.error = o2.error

\* C14: an invocation that resolved its node and found, at each of its
\* broadcast calls, no list or an empty list for its workflow has been sent
\* to no websocket; once ended it has returned an outcome, none of its
\* broadcasts has raised (only a failed setex or the executor of an aiNode
\* without flowId has), it succeeds when nothing raised, and its outcome is
\* the one of an invocation on the same node that had websockets in the list
\* and met no exception.
C14_ZeroSubscribersNoOp ==
  \A e \in Execs :
    (Begun(e) /\ Resolves(inv[e].wf, inv[e].node) /\ hist[e].audience = {}) =>
      /\ \A c \in Conns : EventsFrom(c, e) = << >>
      /\ Ended(e) =>
           /\ Returned(e)
           /\ hist[e].raised => (hist[e].setexFailed \/ LacksFlowId(e))
           /\ ~hist[e].raised => inv[e].outcome.success
           /\ \A f \in Execs \ {e} :
                (/\ Returned(f) /\ inv[f].wf = inv[e].wf /\ inv[f].node = inv[e].node
                 /\ hist[f].audience # {} /\ ~hist[f].raised /\ ~hist[e].raised) =>
                  SameOutcome(inv[e].outcome, inv[f].outcome)

\* C14 witness: one invocation made its broadcasts before the workflow ever
\* had a websocket, another after the workflow's only websocket had been
\* removed, and both returned.
C14_Witness ==
  \E e \in Execs : \E f \in Execs \ {e} :
    /\ Returned(e) /\ Returned(f) /\ inv[e].wf = "w1" /\ inv[f].wf = "w1"
    /\ hist[e].audience = {} /\ hist[f].audience = {}
    /\ conn["s1"].state = "gone" /\ conn["s2"].state = "new"
    /\ active_connections["w1"] = << >>
    /\ PublishedBy(e) # {} /\ PublishedBy(f) # {}
    /\ \A msg \in PublishedBy(e) : PubIndex(msg) <= conn["s1"].pubsAtRemoval
    /\ \A msg \in PublishedBy(f) : PubIndex(msg) > conn["s1"].pubsAtRemoval

Terminal == {"node_execution_complete", "node_execution_error"}

\* C15: of one invocation a websocket is sent at most one start message and
\* at most one terminal message, complete or error and never both, and no
\* start message after a terminal one.
C15_OneStartOneTerminal ==
  \A e \in Execs : \A c \in Conns :
    LET t == TypesFrom(c, e)
    IN /\ Cardinality({i \in 1..Len(t) : t[i] = "node_execution_start"}) <= 1
       /\ Cardinality({i \in 1..Len(t) : t[i] \in Terminal}) <= 1
       /\ \A i, j \in 1..Len(t) :
            (t[i] \in Terminal /\ t[j] = "node_execution_start") => j < i

ErrorsOf(e) == {msg \in PublishedBy(e) : msg.type = "node_execution_error"}
CompletesOf(e) == {msg \in PublishedBy(e) : msg.type = "node_execution_complete"}

\* C16: an invocation that has returned success:false with a message has
\* broadcast an error message carrying it; one that has returned success:true
\* with data has broadcast a complete message carrying the data and no error
\* message; and one that has broadcast an error message has returned
\* success:false.
C16_OutcomeAgreesWithTerminalEvent ==
  \A e \in Execs :
    Returned(e) =>
      /\ ~inv[e].outcome.success =>
           \E msg \in ErrorsOf(e) : msg.data.error = inv[e].outcome.error
      /\ inv[e].outcome.success =>
           /\ \E msg \in CompletesOf(e) : msg.data.result = inv[e].outcome.data
           /\ ErrorsOf(e) = {}
      /\ ErrorsOf(e) # {} => ~inv[e].outcome.success

IsUnknownType(e) ==
  Resolves(inv[e].wf, inv[e].node) /\ NodeOf(inv[e].wf, inv[e].node).type \notin KnownTypes

\* C17: an invocation on a node whose type is none of the four known ones,
\* and whose setex does not fail, has once ended returned success:true with
\* the null result, after broadcasting the start message and then the
\* complete message carrying the null result, and no error message.
C17_UnknownTypeIsNoOpSuccess ==
  \A e \in Execs :
    (Ended(e) /\ IsUnknownType(e) /\ ~hist[e].setexFailed) =>
      /\ Returned(e)
      /\ inv[e].outcome.success
      /\ inv[e].outcome.data = PyNone
      /\ Published(e) = << "node_execution_start", "node_execution_complete" >>
      /\ \A msg \in CompletesOf(e) : msg.data.result = PyNone

\* The invocations that have written the entry of key k, and the last of them.
Writers(k) == {g \in Execs : hist[g].wrote /\ CacheKey(inv[g].node) = k}
LastWriter(k) == CHOOSE g \in Writers(k) : \A h \in Writers(k) : hist[h].putNo <= hist[g].putNo

\* C18: at every state the cache has an entry for a key exactly when some
\* invocation has written it, and the entry is whole and holds the result
\* and the time of the invocation that wrote the key last; when two
\* invocations of one node id ran concurrently and both have returned
\* success:true, the entry holds the data returned by the one of them that
\* wrote last.
C18_LastWriteWins ==
  /\ \A nid \in {inv[g].node : g \in Execs} \ {""} :
       (CacheKey(nid) \in DOMAIN cache) = (Writers(CacheKey(nid)) # {})
  /\ \A k \in DOMAIN cache :
       /\ DOMAIN cache[k].value = {"result", "timestamp"}
       /\ cache[k].value.result = inv[LastWriter(k)].result
       /\ cache[k].value.timestamp = hist[LastWriter(k)].putAt
  /\ \A e \in Execs : \A f \in hist[e].during :
       (/\ inv[e].node = inv[f].node
        /\ Returned(e) /\ inv[e].outcome.success /\ hist[e].wrote
        /\ Returned(f) /\ inv[f].outcome.success /\ hist[f].wrote) =>
         cache[CacheKey(inv[e].node)].value.result =
           inv[LastWriter(CacheKey(inv[e].node))].outcome.data

\* C18 witness: two invocations of one node id ran concurrently, the one
\* whose request arrived second wrote the cache first, and both have
\* returned success:true with results that differ.
C18_Witness ==
  \E e \in Execs : \E f \in hist[e].during :
    /\ inv[e].node = inv[f].node
    /\ Returned(e) /\ inv[e].outcome.success /\ hist[e].wrote
    /\ Returned(f) /\ inv[f].outcome.success /\ hist[f].wrote
    /\ hist[e].putNo < hist[f].putNo
    /\ inv[e].outcome.data # inv[f].outcome.data
    /\ cache[CacheKey(inv[e].node)].value.result = inv[f].outcome.data

\* C19: an invocation that found a cache entry for its node id when its
\* request arrived and met no exception has incremented the execution
\* counter, run its executor, written the cache, broadcast start and then
\* complete and returned success:true with the result it computed itself;
\* its outcome and its broadcasts are those of an invocation with the same
\* arguments that found no entry.
C19_CacheIsNeverRead ==
  \A e \in Execs :
    (/\ Ended(e) /\ Resolves(inv[e].wf, inv[e].node)
     /\ hist[e].cachedAtInvoke /\ ~hist[e].raised) =>
      /\ hist[e].counted /\ hist[e].timed /\ hist[e].wrote
      /\ Published(e) = << "node_execution_start", "node_execution_complete" >>
      /\ Returned(e) /\ inv[e].outcome.success
      /\ inv[e].outcome.data = inv[e].result
      /\ NodeOf(inv[e].wf, inv[e].node).type = "startCall" =>
           inv[e].outcome.data.call_sid = << "CA", e >>
      /\ \A f \in Execs \ {e} :
           (/\ Ended(f) /\ inv[f].wf = inv[e].wf /\ inv[f].node = inv[e].node
            /\ ~hist[f].cachedAtInvoke /\ ~hist[f].raised) =>
             /\ SameOutcome(inv[e].outcome, inv[f].outcome)
             /\ Published(e) = Published(f)

\* C19 witness: two invocations with the same arguments have returned; the
\* first found no cache entry, the second arrived after the first had ended
\* and found the entry it wrote.
C19_Witness ==
  \E e \in Execs : \E f \in hist[e].before :
    /\ inv[f].wf = inv[e].wf /\ inv[f].node = inv[e].node
    /\ Returned(e) /\ Returned(f) /\ hist[f].wrote
    /\ hist[e].cachedAtInvoke /\ ~hist[f].cachedAtInvoke
    /\ ~hist[e].raised /\ ~hist[f].raised

\* The list the registry holds for workflow id w, now and in the next state.
ListNow(w) == IF w \in DOMAIN active_connections THEN active_connections[w] ELSE <<>>
ListNext(w) == IF w \in DOMAIN active_connections' THEN active_connections'[w] ELSE <<>>

\* C20: every node execution message a websocket has been sent carries the
\* workflow id the websocket registered under; and a step that changes the
\* list of a workflow id, or gives the id its list, is the connect or the
\* disconnect of a websocket of that workflow id, adds or removes that
\* websocket only, and no workflow id ever loses its list.
C20_PerWorkflowIsolation ==
  /\ [](\A c \in Conns : \A i \in 1..Len(Events(c)) :
          Events(c)[i].data.workflow_id = conn[c].wf)
  /\ [][/\ DOMAIN active_connections \subseteq DOMAIN active_connections'
        /\ \A w \in DOMAIN active_connections' :
             (\/ w \notin DOMAIN active_connections
              \/ active_connections'[w] # active_connections[w]) =>
               \E c \in Conns :
                 /\ conn'[c].wf = w /\ conn'[c] # conn[c]
                 /\ \/ ListNext(w) = Append(ListNow(w), c)
                    \/ /\ c \in SeqSet(ListNow(w))
                       /\ ListNext(w) = ListRemove(ListNow(w), c)]_vars

\* C20 witness: websockets are registered under two workflow ids, the one of
\* w2 has been sent a message of an invocation on w2 and the one of w1
\* nothing, and the websocket of w1 has since been removed from its list.
C20_Witness ==
  /\ conn["s1"].wf = "w1" /\ conn["s1"].state = "gone"
  /\ conn["s2"].wf = "w2" /\ conn["s2"].pubsAtRemoval = 0
  /\ active_connections["w2"] = << "s2" >>
  /\ Events("s2") # << >> /\ Events("s1") = << >>
  /\ conn["s1"].pubsAtRemoval > 0
====
